---- MODULE Spec2Model ----
(***************************************************************************)
(* Model of the validate-then-translate core of micro-fleet-common:        *)
(*   - JoiModelValidator (id / whole / partial, lazily compiled schemas),  *)
(*   - ModelAutoMapper   (whole / partial -> tryTranslate -> translate).   *)
(* The constraint engine (joi) and the shape copier (automapper) are       *)
(* external collaborators; they are modelled by what they do to the small  *)
(* value universe below.                                                   *)
(***************************************************************************)
EXTENDS Integers, Sequences, FiniteSets, TLC

VARIABLES validator, translator, call, registry, memo, history

vars == <<validator, translator, call, registry, memo, history>>
\* The state of the model classes: declared metadata, memoized instances,
\* and what the caller remembers of earlier requests.
classVars == <<registry, memo, history>>

----------------------------------------------------------------------------
(* Bounds of the model.                                                    *)

\* Largest number a candidate property holds (numbers are 0..MaxNum).
MaxNum == 1
\* Longest source array handed to translator.whole / translator.partial.
MaxLen == 2

----------------------------------------------------------------------------
(* JavaScript values.                                                      *)

Null == [t |-> "null"]
Undefined == [t |-> "undefined"]
Num(n) == [t |-> "number", n |-> n]
\* A non-numeric string of n characters.
Str(n) == [t |-> "string", n |-> n]

\* Property names candidates may carry; "extra" is in no schema map.
SchemaKeys == {"theID", "name"}
ObjectKeys == SchemaKeys \cup {"extra"}
\* Enumeration order of an object's own keys.
KeyOrder == <<"theID", "name", "extra">>

\* What a property of a candidate holds; Undefined is a missing property.
Cells == {Undefined, Null, Str(1)} \cup {Num(n) : n \in 0..MaxNum}

\* A plain object: every key of ObjectKeys mapped to its cell.
Obj(p) == [t |-> "object", props |-> p]
Arr(s) == [t |-> "array", items |-> s]
Objects == {Obj(p) : p \in [ObjectKeys -> Cells]}
EmptyProps == [k \in ObjectKeys |-> Undefined]

IsNullish(x) == x.t \in {"null", "undefined"}
\* A faulty type test that lets every value through.
TypeofObject_any(x) == TRUE
\* typeof x === 'object' (null and arrays included).
TypeofObject(x) == x.t \in {"null", "object", "array"}

----------------------------------------------------------------------------
(* Constraint expressions (joi schemas) and the rule transformers the      *)
(* source applies to them.                                                 *)

\* joi.number() / joi.string(): presence defaults to optional.
JoiType(type) ==
    [kind |-> "schema", type |-> type, presence |-> "optional",
     allowNull |-> FALSE, checks |-> <<>>]
\* A literal in a schema map (sugar for "exactly this value"): a plain
\* value, so it has no optional() method.
JoiLiteral ==
    [kind |-> "literal", type |-> "number", presence |-> "optional",
     allowNull |-> FALSE, checks |-> <<>>]
LiteralValue == Num(1)

JoiRequired(rule) == [rule EXCEPT !.presence = "required"]
JoiOptional(rule) == [rule EXCEPT !.presence = "optional"]
JoiAllowNull(rule) == [rule EXCEPT !.allowNull = TRUE]
\* A value rule joins the rules the schema already has, in the order given.
JoiMin(rule, n) == [rule EXCEPT !.checks = Append(@, [op |-> "min", n |-> n])]
JoiMax(rule, n) == [rule EXCEPT !.checks = Append(@, [op |-> "max", n |-> n])]

\* typeof rule.optional === 'function'
HasOptionalFn(rule) == rule.kind = "schema"

----------------------------------------------------------------------------
(* Schema maps: ordered key -> rule entries (a JS object keeps insertion   *)
(* order).                                                                 *)

Entry(k, r) == [key |-> k, rule |-> r]
MapKeys(m) == {m[i].key : i \in 1..Len(m)}
HasKey(m, k) == k \in MapKeys(m)
RuleOf(m, k) == m[CHOOSE i \in 1..Len(m) : m[i].key = k].rule

\* Object spread {...a, ...b}: a's keys keep their place, b's values win.
Spread(a, b) ==
    [i \in 1..Len(a) |->
        IF HasKey(b, a[i].key) THEN Entry(a[i].key, RuleOf(b, a[i].key))
                               ELSE a[i]]
    \o SelectSeq(b, LAMBDA e : ~HasKey(a, e.key))

----------------------------------------------------------------------------
(* Validation options: an object holding some of the option keys.          *)

OptNames == {"abortEarly", "allowUnknown", "stripUnknown"}
\* A faulty spread in which the first object's values win.
MergeOpts_firstWins(a, b) ==
    [k \in (DOMAIN a) \cup (DOMAIN b) |-> IF k \in DOMAIN a THEN a[k] ELSE b[k]]
\* Object spread {...a, ...b} of two option objects.
MergeOpts(a, b) ==
    [k \in (DOMAIN a) \cup (DOMAIN b) |-> IF k \in DOMAIN b THEN b[k] ELSE a[k]]
NoOpts == [k \in {} |-> TRUE]
\* The engine's own preferences, used for every key a call leaves out.
JoiDefaultPrefs ==
    [abortEarly |-> TRUE, allowUnknown |-> FALSE, stripUnknown |-> FALSE]
Pref(opts, k) == IF k \in DOMAIN opts THEN opts[k] ELSE JoiDefaultPrefs[k]

----------------------------------------------------------------------------
(* The constraint engine: schema.validate(target, opts).                   *)

Detail(path, type) == [path |-> path, type |-> type]

\* Violations of one rule by the value found under `key`.
FieldErrors(rule, key, item) ==
    IF rule.kind = "literal"
    THEN IF item.t = "undefined" \/ item = LiteralValue
         THEN <<>> ELSE <<Detail(key, "only")>>
    ELSE IF item.t = "undefined"
    THEN IF rule.presence = "required"
         THEN <<Detail(key, "required")>> ELSE <<>>
    ELSE IF item.t = "null"
    THEN IF rule.allowNull THEN <<>> ELSE <<Detail(key, "base")>>
    ELSE IF item.t # rule.type
    THEN <<Detail(key, "base")>>
    ELSE LET broken == SelectSeq(rule.checks, LAMBDA c :
                           IF c.op = "min" THEN item.n < c.n ELSE item.n > c.n)
         IN  [i \in 1..Len(broken) |-> Detail(key, broken[i].op)]

RECURSIVE KeysErrors(_, _)
\* The violations of the schema's keys, in the order of the keys.
KeysErrors(keys, props) ==
    IF keys = <<>> THEN <<>>
    ELSE FieldErrors(Head(keys).rule, Head(keys).key, props[Head(keys).key])
         \o KeysErrors(Tail(keys), props)

\* The keys the object holds that the schema does not name.
UnknownKeys(keys, props) ==
    SelectSeq(KeyOrder, LAMBDA k : props[k].t # "undefined" /\ ~HasKey(keys, k))

\* joi.object(schemaMap)
JoiObject(schemaMap) == [compiled |-> TRUE, keys |-> schemaMap]
NotCompiled == [compiled |-> FALSE, keys |-> <<>>]

\* {error, value} of schema.validate(target, opts); no details = no error.
JoiValidate(schema, target, opts) ==
    IF target.t = "undefined"
    THEN [details |-> <<>>, value |-> Undefined]
    ELSE IF target.t # "object"
    THEN [details |-> <<Detail("", "object.base")>>, value |-> target]
    ELSE LET props == target.props
             unknown == UnknownKeys(schema.keys, props)
             strip == Pref(opts, "stripUnknown")
             unknownErrors ==
                 IF strip \/ Pref(opts, "allowUnknown") THEN <<>>
                 ELSE [i \in 1..Len(unknown) |-> Detail(unknown[i], "unknown")]
             all == KeysErrors(schema.keys, props) \o unknownErrors
         IN  [details |-> IF Pref(opts, "abortEarly") /\ all # <<>>
                          THEN <<Head(all)>> ELSE all,
              value |-> Obj([k \in ObjectKeys |->
                             IF strip /\ ~HasKey(schema.keys, k)
                             THEN Undefined ELSE props[k]])]

\* ValidationError.fromJoi(error.details)
ValidationError(details) == [t |-> "ValidationError", details |-> details]

----------------------------------------------------------------------------
(* JoiModelValidator.  A validator is the record of its private fields;    *)
(* every method yields its outcome and the validator it leaves behind.     *)

Returned(value) == [kind |-> "return", value |-> value]
Raised(error) == [kind |-> "raise", error |-> error]

\* new JoiModelValidator({schemaMapId, schemaMapModel, joiOptions})
NewValidator(idDefined, schemaMapId, schemaMapModel, joiOptions) ==
    [_schemaMapId |-> [defined |-> idDefined, map |-> schemaMapId],
     _schemaMapModel |-> schemaMapModel,
     _defaultOpts |->
         MergeOpts([abortEarly |-> FALSE, allowUnknown |-> TRUE,
                    stripUnknown |-> TRUE], joiOptions),
     _compiledId |-> NotCompiled,
     _compiledWhole |-> NotCompiled,
     _compiledPartial |-> NotCompiled]

\* A faulty _optionalize that leaves every rule as it was declared.
_optionalize_asDeclared(schemaMap) == schemaMap

RECURSIVE _optionalize(_)
_optionalize(schemaMap) ==
    IF schemaMap = <<>> THEN <<>>
    ELSE LET e == Head(schemaMap)
             rest == _optionalize(Tail(schemaMap))
         IN  IF HasOptionalFn(e.rule)
             THEN <<Entry(e.key, JoiOptional(e.rule))>> \o rest
             ELSE rest

_compileWholeSchema(v) ==
    [v EXCEPT !._compiledWhole =
        JoiObject(Spread(_optionalize(v._schemaMapId.map), v._schemaMapModel))]

_compilePartialSchema(v) ==
    [v EXCEPT !._compiledPartial =
        JoiObject(Spread(v._schemaMapId.map, _optionalize(v._schemaMapModel)))]

\* A faulty pair that keeps the value beside the error.
ResultPair_keepValue(r) ==
    IF r.details # <<>> THEN <<[t |-> "ValidationError", details |-> r.details],
                               r.value>>
                        ELSE <<Null, r.value>>

\* The [error, value] pair both _validate and id build from the engine's answer.
ResultPair(r) ==
    IF r.details # <<>> THEN <<ValidationError(r.details), Null>>
                        ELSE <<Null, r.value>>

\* A faulty _validate that hands back the target instead of the value the
\* engine normalized.
_validate_raw(v, schema, target, options) ==
    LET r == JoiValidate(schema, target, MergeOpts(v._defaultOpts, options))
    IN  IF r.details # <<>> THEN <<ValidationError(r.details), Null>>
                            ELSE <<Null, target>>

\* A faulty _validate that forgets the validator's default options.
_validate_noDefaults(v, schema, target, options) ==
    ResultPair(JoiValidate(schema, target, options))

_validate(v, schema, target, options) ==
    ResultPair(JoiValidate(schema, target, MergeOpts(v._defaultOpts, options)))

\* A faulty whole that compiles its schema on every call and keeps none.
whole_uncached(v, target, options) ==
    LET v1 == _compileWholeSchema(v)
    IN  [out |-> Returned(_validate(v1, v1._compiledWhole, target, options)),
         v |-> v]

whole(v, target, options) ==
    LET v1 == IF ~v._compiledWhole.compiled THEN _compileWholeSchema(v) ELSE v
    IN  [out |-> Returned(_validate(v1, v1._compiledWhole, target, options)),
         v |-> v1]

partial(v, target, options) ==
    LET v1 == IF ~v._compiledPartial.compiled THEN _compilePartialSchema(v) ELSE v
    IN  [out |-> Returned(_validate(v1, v1._compiledPartial, target, options)),
         v |-> v1]

\* Guard.assertIsDefined(this._schemaMapId, ...) fails when no identifier
\* map was given; otherwise the identifier schema is an object schema.
_compileIdSchema(v) ==
    IF ~v._schemaMapId.defined
    THEN [out |-> Raised([t |-> "PreconditionError"]), v |-> v]
    ELSE [out |-> Returned(Undefined),
          v |-> [v EXCEPT !._compiledId = JoiObject(v._schemaMapId.map)]]

\* The identifier schema is validated with no options at all, so the
\* engine's own preferences apply.
id(v, target) ==
    LET c == IF ~v._compiledId.compiled THEN _compileIdSchema(v)
             ELSE [out |-> Returned(Undefined), v |-> v]
    IN  IF c.out.kind = "raise" THEN c
        ELSE [out |-> Returned(ResultPair(
                          JoiValidate(c.v._compiledId, target, NoOpts))),
              v |-> c.v]

----------------------------------------------------------------------------
(* The JoiModelValidator of the translator's own version: compiled by      *)
(* compile(), not on first use, and given isEdit with the options.         *)

PreconditionError == [t |-> "PreconditionError"]

\* new JoiModelValidator(schemaMap, isCompositePk, schemaMapPk), as a
\* subclass constructs it: nothing compiled yet.
JoiModelValidator(schemaMap, isCompositePk, schemaMapPk) ==
    [_schemaMap |-> schemaMap, _isCompositePk |-> isCompositePk,
     _schemaMapPk |-> schemaMapPk,
     _compiledPk |-> NotCompiled,
     _compiledWhole |-> NotCompiled,
     _compiledPartial |-> NotCompiled]
\* The validator is one of this version.
IsLegacy(v) == "_schemaMapPk" \in DOMAIN v

\* compile(): the whole schema, the partial schema of optional rules, and
\* the key schema: the object of the key map when the key is composite,
\* else the first rule of the key map alone.
compile(v) ==
    [v EXCEPT
        !._compiledWhole = JoiObject(v._schemaMap),
        !._compiledPartial = JoiObject(_optionalize(v._schemaMap)),
        !._compiledPk =
            IF v._compiledPk.compiled THEN v._compiledPk
            ELSE IF v._isCompositePk THEN JoiObject(v._schemaMapPk)
            ELSE IF v._schemaMapPk = <<>> THEN NotCompiled
            ELSE [compiled |-> TRUE, keys |-> <<>>,
                  rule |-> Head(v._schemaMapPk).rule]]

\* JoiModelValidator.create(schemaMapModel, isCompoundPk, schemaMapPk)
create(schemaMap, isCompositePk, schemaMapPk) ==
    compile(JoiModelValidator(schemaMap, isCompositePk, schemaMapPk))

\* pk(pk): Guard.assertIsDefined(this._compiledPk, ...) comes first.
pk(v, target) ==
    IF ~v._compiledPk.compiled THEN [out |-> Raised(PreconditionError), v |-> v]
    ELSE [out |-> Returned(ResultPair(
                      IF "rule" \in DOMAIN v._compiledPk
                      THEN [details |-> FieldErrors(v._compiledPk.rule, "", target),
                            value |-> target]
                      ELSE JoiValidate(v._compiledPk, target, NoOpts))),
          v |-> v]

\* A faulty validate that returns the failed precondition as the error of
\* its result pair.
validate_returning(v, schema, target, options) ==
    IF ~schema.compiled
    THEN [out |-> Returned(<<PreconditionError, Null>>), v |-> v]
    ELSE [out |-> Returned(ResultPair(
                      JoiValidate(schema, target,
                          MergeOpts([abortEarly |-> FALSE, allowUnknown |-> TRUE,
                                     stripUnknown |-> TRUE], options)))),
          v |-> v]

\* validate(schema, target, options): Guard.assertIsDefined(schema, ...)
\* comes first; in edit mode the key map joins the schema.
validate(v, schema, target, options) ==
    IF ~schema.compiled THEN [out |-> Raised(PreconditionError), v |-> v]
    ELSE LET opts == MergeOpts([abortEarly |-> FALSE, allowUnknown |-> TRUE,
                                stripUnknown |-> TRUE, isEdit |-> FALSE],
                               options)
             edited == IF opts.isEdit
                       THEN JoiObject(Spread(schema.keys, v._schemaMapPk))
                       ELSE schema
         IN  [out |-> Returned(ResultPair(JoiValidate(edited, target, opts))),
              v |-> v]

----------------------------------------------------------------------------
(* ModelAutoMapper.  A translator is [hasValidator, enableValidation]; the *)
(* effects of a call are threaded through the record                      *)
(*   [v: validator, cb: errors given to errorCallback,                    *)
(*    vcalls: validator invocations with their results,                   *)
(*    mcalls: arguments given to map and whether the copy failed].        *)

\* new ModelAutoMapper(ModelClass, validator?)
NewTranslator(hasValidator) ==
    [hasValidator |-> hasValidator, enableValidation |-> hasValidator]

Effects(v) == [v |-> v, cb |-> <<>>, vcalls |-> <<>>, mcalls |-> <<>>]

\* What automapper.map('any', ModelClass, source) builds: a ModelClass
\* instance carrying the source's properties.
Instance(source) ==
    [t |-> "instance", class |-> "ModelClass",
     props |-> IF source.t = "object" THEN source.props ELSE EmptyProps]
MappingError == [t |-> "MappingError"]

\* this.map(source); `fails` is the copier's verdict on this element.
map(source, fails, s) ==
    [out |-> IF fails THEN Raised(MappingError) ELSE Returned(Instance(source)),
     s |-> [s EXCEPT !.mcalls = Append(@, [source |-> source, failed |-> fails])]]

\* A faulty merge in which the translator's flag wins over the per-call one.
AssignOptions_classOnly(tr, options) ==
    [enableValidation |-> tr.enableValidation,
     isEdit |-> options.isEdit = "true",
     errorCallback |-> options.errorCallback = "function"]

\* Object.assign({enableValidation: this.enableValidation, isEdit: false},
\* options): a key the caller set wins, also when set to undefined.
AssignOptions(tr, options) ==
    [enableValidation |->
         IF options.enableValidation = "absent" THEN tr.enableValidation
         ELSE options.enableValidation = "true",
     isEdit |-> options.isEdit = "true",
     errorCallback |-> options.errorCallback = "function"]

\* A faulty handleError that throws whether or not a callback was given.
handleError_throwing(err, callback) ==
    IF IsNullish(err) THEN "ignored" ELSE "thrown"

\* The local function handleError of translate: "ignored" (no error),
\* "thrown" (no callback) or "reported" (callback invoked).
handleError(err, callback) ==
    IF IsNullish(err) THEN "ignored"
    ELSE IF ~callback THEN "thrown"
    ELSE "reported"

\* A faulty end of translate that swallows a failure of the copy: null is
\* returned and nobody is told.
AfterMap_silent(options, m) ==
    IF m.out.kind = "return" THEN m
    ELSE [out |-> Returned(Null), s |-> m.s]

\* The end of translate: m is what this.map(model) came to; a failure of
\* the copy is caught and given to handleError ("Mapping error").
AfterMap(options, m) ==
    IF m.out.kind = "return" THEN m
    ELSE IF handleError(m.out.error, options.errorCallback) = "thrown" THEN m
    ELSE [out |-> Returned(Null),
          s |-> [m.s EXCEPT !.cb = Append(@, m.out.error)]]

\* translate from the validator's answer r on: [error, model] is taken
\* apart, the error handled, the model copied.
AfterValidation(fn, source, options, fails, s, r) ==
    IF r.out.kind = "raise"
    THEN [out |-> r.out,
          s |-> [s EXCEPT !.vcalls = Append(@, [fn |-> fn, target |-> source,
                                                raised |-> r.out.error])]]
    ELSE
    LET error == r.out.value[1]
        model == r.out.value[2]
        s1 == [s EXCEPT !.v = r.v,
                        !.vcalls = Append(@, [fn |-> fn, target |-> source,
                                              result |-> r.out.value])]
        h == handleError(error, options.errorCallback)
    IN  IF h = "thrown" THEN [out |-> Raised(error), s |-> s1]
        ELSE IF h = "reported"
        THEN [out |-> Returned(Null), s |-> [s1 EXCEPT !.cb = Append(@, error)]]
        ELSE AfterMap(options, map(model, fails, s1))

\* this.validator[fn](source, {isEdit}) on the validator the translator
\* was constructed with.
CallValidator(v, fn, target, options) ==
    IF IsLegacy(v)
    THEN validate(v, IF fn = "whole" THEN v._compiledWhole
                     ELSE v._compiledPartial, target, options)
    ELSE IF fn = "whole" THEN whole(v, target, options)
    ELSE partial(v, target, options)

\* this.validator[fn] of a translator built without validator is a
\* property of undefined: a TypeError.
translate(tr, fn, source, options, fails, s) ==
    IF ~options.enableValidation
    THEN map(source, fails, s)
    ELSE IF ~tr.hasValidator
    THEN [out |-> Raised([t |-> "TypeError"]), s |-> s]
    ELSE AfterValidation(fn, source, options, fails, s,
             CallValidator(s.v, fn, source,
                           [k \in {"isEdit"} |-> options.isEdit]))

RECURSIVE MapItems(_, _, _, _, _, _, _, _)
\* source.map(s => this.translate(fn, s, options)) from index i on: `acc`
\* holds the results so far; a raise ends the loop and the call.
MapItems(tr, fn, items, options, failing, i, acc, s) ==
    IF i > Len(items) THEN [out |-> Returned(Arr(acc)), s |-> s]
    ELSE LET r == translate(tr, fn, items[i], options, i \in failing, s)
         IN  IF r.out.kind = "raise" THEN r
             ELSE MapItems(tr, fn, items, options, failing, i + 1,
                           Append(acc, r.out.value), r.s)

\* `failing` is the set of positions whose copy the shape copier refuses
\* (position 1 for a single source).
tryTranslate(tr, fn, source, options, failing, v) ==
    IF IsNullish(source) \/ ~TypeofObject(source)
    THEN [out |-> Returned(Null), s |-> Effects(v)]
    ELSE LET opts == AssignOptions(tr, options)
         IN  IF source.t = "array"
             THEN MapItems(tr, fn, source.items, opts, failing, 1, <<>>, Effects(v))
             ELSE translate(tr, fn, source, opts, 1 \in failing, Effects(v))

\* The objects a translator call works on, the caller's and its own, and
\* the properties it sets on them.
Written(obj, key, value) == [obj |-> obj, key |-> key, value |-> value]
MappingOptionKeys == <<"enableValidation", "isEdit", "errorCallback">>

\* A faulty merge that fills the defaults into the caller's own object.
ObjectAssign_intoOptions(target, tr, options) ==
    <<Written("options", "enableValidation",
              IF tr.enableValidation THEN "true" ELSE "false"),
      Written("options", "isEdit", "false")>>

\* Object.assign(target, {enableValidation: ..., isEdit: false}, options):
\* every property is set on target, the caller's after the defaults.
ObjectAssign(target, tr, options) ==
    <<Written(target, "enableValidation",
              IF tr.enableValidation THEN "true" ELSE "false"),
      Written(target, "isEdit", "false")>>
    \o SelectSeq([i \in 1..3 |-> Written(target, MappingOptionKeys[i],
                                         options[MappingOptionKeys[i]])],
                 LAMBDA w : w.value # "absent")

\* What a call that came to r has set: the merged options of tryTranslate,
\* then for every element validated the {isEdit} literal of translate, and
\* for every element copied the new instance.  Nothing is set after the
\* test of the source fails.
WritesOf(tr, source, options, r) ==
    IF IsNullish(source) \/ ~TypeofObject(source) THEN <<>>
    ELSE ObjectAssign("merged", tr, options)
         \o [i \in 1..Len(r.s.vcalls) |->
                Written("validatorOptions", "isEdit",
                        IF AssignOptions(tr, options).isEdit THEN "true"
                                                             ELSE "false")]
         \o [i \in 1..Len(SelectSeq(r.s.mcalls, LAMBDA m : ~m.failed)) |->
                Written("instance", "props", "copied")]

----------------------------------------------------------------------------
(* Property decorators and the schema a property's metadata compiles to.   *)

Rule(op, n) == [op |-> op, n |-> n]
NoSchema == [kind |-> "none"]

\* The stub extractPropValidationMetadata hands out: type string, no rules.
DefaultPropMeta == [type |-> "string", rules |-> <<>>, rawSchema |-> NoSchema]

\* @string(): sets the type builder (no length or pattern option given).
string(propMeta) == [propMeta EXCEPT !.type = "string"]

\* @number({min, max}): sets the type builder, records a min rule when min
\* is given and then a max rule when max is given (a negative number
\* stands for "not given").
number(min, max, propMeta) ==
    [propMeta EXCEPT !.type = "number",
                     !.rules = (IF min >= 0 THEN Append(@, Rule("min", min)) ELSE @)
                               \o (IF max >= 0 THEN <<Rule("max", max)>> ELSE <<>>)]

\* A faulty @required that lets null through whatever allowNull says.
required_nullable(allowNull, propMeta) ==
    [propMeta EXCEPT !.rules =
        @ \o <<[op |-> "required", n |-> 0], [op |-> "allowNull", n |-> 0]>>]

\* @required(allowNull): records required(), then allow(null) if asked.
required(allowNull, propMeta) ==
    [propMeta EXCEPT !.rules =
        IF allowNull THEN @ \o <<Rule("required", 0), Rule("allowNull", 0)>>
                     ELSE Append(@, Rule("required", 0))]

\* One recorded rule applied to the schema built so far.
ApplyRule(rule, schema) ==
    IF rule.op = "required" THEN JoiRequired(schema)
    ELSE IF rule.op = "allowNull" THEN JoiAllowNull(schema)
    ELSE IF rule.op = "min" THEN JoiMin(schema, rule.n)
    ELSE JoiMax(schema, rule.n)

RECURSIVE Reduce(_, _)
\* rules.reduce((prev, curRule) => curRule(prev), start)
Reduce(rules, start) ==
    IF rules = <<>> THEN start
    ELSE Reduce(Tail(rules), ApplyRule(Head(rules), start))

\* @validateProp(schema): the schema is stored as the property's rawSchema.
validateProp(schema, propMeta) == [propMeta EXCEPT !.rawSchema = schema]

\* Boolean(x) for the values a rawSchema can be: nothing, a plain value
\* (sugar for "exactly this value") or a schema object.
Boolean(x) == x \notin {NoSchema, Undefined, Null, Num(0)}

buildPropSchema(propMeta) ==
    IF Boolean(propMeta.rawSchema) THEN propMeta.rawSchema
    ELSE Reduce(propMeta.rules, JoiType(propMeta.type))

----------------------------------------------------------------------------
(* The metadata registry: per-class validation metadata kept under the     *)
(* key VALIDATE_META.  Property metadata are mutable objects that several  *)
(* class records may hold at once, so they live in a heap and the records  *)
(* hold references to them.                                                *)

\* The model classes: class Child extends Parent.
Classes == {"Parent", "Child"}
NoClass == "none"
SuperOf(Class) == IF Class = "Child" THEN "Parent" ELSE NoClass

\* Reflect.getOwnMetadata(...) of a class nothing was defined on.
NoMeta == [kind |-> "undefined"]

createClassValidationMetadata ==
    [schemaMapId |-> <<>>, schemaMapModel |-> <<>>, props |-> <<>>,
     idProps |-> {}, joiOptions |-> Undefined]

\* The copy is one level deep: new maps, the same property objects, and no
\* joiOptions.
cloneMetadata(source) ==
    [schemaMapId |-> source.schemaMapId,
     schemaMapModel |-> source.schemaMapModel,
     props |-> source.props,
     idProps |-> source.idProps,
     joiOptions |-> Undefined]

RECURSIVE GetMetadata(_, _)
\* Reflect.getMetadata(key, Class): the class's own value, else the value of
\* the nearest ancestor that has one, else undefined.  `store` maps each
\* class to its own value.
GetMetadata(store, Class) ==
    IF Class = NoClass THEN NoMeta
    ELSE IF store[Class] # NoMeta THEN store[Class]
    ELSE GetMetadata(store, SuperOf(Class))

getClassValidationMetadata(reg, Class) ==
    LET ownMeta == reg.meta[Class]
        inheritMeta == GetMetadata(reg.meta, Class)
    IN  IF ownMeta # NoMeta THEN ownMeta
        ELSE IF inheritMeta # NoMeta THEN cloneMetadata(inheritMeta)
        ELSE createClassValidationMetadata

setClassValidationMetadata(reg, Class, meta) ==
    [reg EXCEPT !.meta[Class] = meta]

deleteClassValidationMetadata(reg, Class) ==
    [reg EXCEPT !.meta[Class] = NoMeta]

\* classMeta.props: property name -> reference, in insertion order.
HasProp(props, propName) == \E i \in 1..Len(props) : props[i].key = propName
RefOf(props, propName) ==
    props[CHOOSE i \in 1..Len(props) : props[i].key = propName].ref
\* props[propName] = ref
SetProp(props, propName, ref) ==
    IF HasProp(props, propName)
    THEN [i \in 1..Len(props) |->
             IF props[i].key = propName THEN [key |-> propName, ref |-> ref]
                                        ELSE props[i]]
    ELSE Append(props, [key |-> propName, ref |-> ref])

\* The stub handed out for a property nothing was declared on.
PropMetaStub(ownerClass) ==
    [type |-> "string", rules |-> <<>>, rawSchema |-> NoSchema,
     ownerClass |-> ownerClass]

\* A faulty lookup that hands out whatever object the record holds, an
\* ancestor's included.
extractPropValidationMetadata_anyOwner(heap, classMeta, propName, ownerClass) ==
    IF HasProp(classMeta.props, propName)
    THEN [ref |-> RefOf(classMeta.props, propName), heap |-> heap]
    ELSE [ref |-> Len(heap) + 1, heap |-> Append(heap, PropMetaStub(ownerClass))]

\* The stored object when the requesting class declared it, else a new stub
\* owned by the requesting class.
extractPropValidationMetadata(heap, classMeta, propName, ownerClass) ==
    IF /\ HasProp(classMeta.props, propName)
       /\ heap[RefOf(classMeta.props, propName)].ownerClass = ownerClass
    THEN [ref |-> RefOf(classMeta.props, propName), heap |-> heap]
    ELSE [ref |-> Len(heap) + 1, heap |-> Append(heap, PropMetaStub(ownerClass))]

setPropValidationMetadata(reg, Class, classMeta, propName, ref) ==
    setClassValidationMetadata(reg, Class,
        [classMeta EXCEPT !.props = SetProp(@, propName, ref)])

\* What the decorators of the model do to a property's metadata:
\* @required() and @number({min: 1}).
Decorated(decorator, propMeta) ==
    IF decorator = "required" THEN required(FALSE, propMeta)
    ELSE number(1, -1, propMeta)

\* A property decorator at work: the class's metadata is fetched, the
\* property's metadata extracted from it for the decorated class, changed
\* by the decorator and stored back.
DecorateProp(reg, Class, propName, decorator) ==
    LET classMeta == getClassValidationMetadata(reg, Class)
        x == extractPropValidationMetadata(reg.heap, classMeta, propName, Class)
        heap == [x.heap EXCEPT ![x.ref] = Decorated(decorator, @)]
    IN  setPropValidationMetadata([reg EXCEPT !.heap = heap], Class,
                                  classMeta, propName, x.ref)

\* @id()
idDecorator(reg, Class, propName) ==
    LET classMeta == getClassValidationMetadata(reg, Class)
    IN  setClassValidationMetadata(reg, Class,
            [classMeta EXCEPT !.idProps = @ \cup {propName}])

\* @validateClass(validatorOptions): Object.assign(metadata, options)
validateClass(reg, Class, validatorOptions) ==
    LET classMeta == getClassValidationMetadata(reg, Class)
    IN  setClassValidationMetadata(reg, Class,
            [k \in DOMAIN classMeta |->
                IF k \in DOMAIN validatorOptions THEN validatorOptions[k]
                                                 ELSE classMeta[k]])

\* map[key] = rule
SetKey(schemaMap, key, rule) == Spread(schemaMap, <<Entry(key, rule)>>)

RECURSIVE BuildProps(_, _, _, _)
\* The loop of buildSchemaMapModel from the i-th property on.
BuildProps(heap, classMeta, i, maps) ==
    IF i > Len(classMeta.props) THEN maps
    ELSE LET prop == classMeta.props[i].key
             propSchema == buildPropSchema(heap[classMeta.props[i].ref])
         IN  BuildProps(heap, classMeta, i + 1,
                 IF prop \in classMeta.idProps
                 THEN [maps EXCEPT !.schemaMapId = SetKey(@, prop, propSchema)]
                 ELSE [maps EXCEPT !.schemaMapModel = SetKey(@, prop, propSchema)])

\* A faulty build that routes every property into the model map.
buildSchemaMapModel_modelOnly(heap, classMeta) ==
    BuildProps(heap, [classMeta EXCEPT !.idProps = {}], 1,
               [schemaMapId |-> classMeta.schemaMapId,
                schemaMapModel |-> classMeta.schemaMapModel])

\* Every property's schema is written into the class-level maps.
buildSchemaMapModel(heap, classMeta) ==
    BuildProps(heap, classMeta, 1,
               [schemaMapId |-> classMeta.schemaMapId,
                schemaMapModel |-> classMeta.schemaMapModel])

\* joiOptions || classMeta.joiOptions, as the constructor spreads it.
OptionsOrNone(joiOptions, classOptions) ==
    IF joiOptions # Undefined THEN joiOptions
    ELSE IF classOptions # Undefined THEN classOptions
    ELSE NoOpts

\* null when both maps are empty; else a validator, and the class's own
\* metadata is deleted.
createJoiValidator(reg, Class, joiOptions) ==
    LET classMeta == getClassValidationMetadata(reg, Class)
        maps == buildSchemaMapModel(reg.heap, classMeta)
    IN  IF maps.schemaMapId = <<>> /\ maps.schemaMapModel = <<>>
        THEN [out |-> Null, reg |-> reg]
        ELSE [out |-> NewValidator(TRUE, maps.schemaMapId, maps.schemaMapModel,
                                   OptionsOrNone(joiOptions, classMeta.joiOptions)),
              reg |-> deleteClassValidationMetadata(reg, Class)]

NoRegistry == [meta |-> [C \in Classes |-> NoMeta], heap |-> <<>>]

----------------------------------------------------------------------------
(* Translatable: the validator and the translator of a class, kept under   *)
(* the keys VALIDATOR and TRANSLATOR.  Instances are told apart by their   *)
(* place in memo.created, the order of their creation.                     *)

Ref(i) == [t |-> "ref", i |-> i]
NoMemo ==
    [validator |-> [C \in Classes |-> NoMeta],
     translator |-> [C \in Classes |-> NoMeta],
     created |-> <<>>]

\* A faulty getValidator that takes a memoized null for "nothing memoized".
getValidator_falsy(reg, m, Class) ==
    LET found == GetMetadata(m.validator, Class)
    IN  IF found = NoMeta \/ found = Null
        THEN LET c == createJoiValidator(reg, Class, Undefined)
                 validator_ == IF c.out = Null THEN Null
                               ELSE Ref(Len(m.created) + 1)
                 created == IF c.out = Null THEN m.created
                            ELSE Append(m.created,
                                        [kind |-> "validator", class |-> Class,
                                         v |-> c.out])
             IN  [out |-> validator_, built |-> TRUE, reg |-> c.reg,
                  memo |-> [m EXCEPT !.validator[Class] = validator_,
                                     !.created = created]]
        ELSE [out |-> found, built |-> FALSE, reg |-> reg, memo |-> m]

\* Translatable.getValidator; the outcome tells whether $createValidator ran.
getValidator(reg, m, Class) ==
    LET found == GetMetadata(m.validator, Class)
    IN  IF found = NoMeta
        THEN LET c == createJoiValidator(reg, Class, Undefined)
                 validator_ == IF c.out = Null THEN Null
                               ELSE Ref(Len(m.created) + 1)
                 created == IF c.out = Null THEN m.created
                            ELSE Append(m.created,
                                        [kind |-> "validator", class |-> Class,
                                         v |-> c.out])
             IN  [out |-> validator_, built |-> TRUE, reg |-> c.reg,
                  memo |-> [m EXCEPT !.validator[Class] = validator_,
                                     !.created = created]]
        ELSE [out |-> found, built |-> FALSE, reg |-> reg, memo |-> m]

\* Translatable.getTranslator; $createTranslator is
\* new ModelAutoMapper(this, this.getValidator()).
getTranslator(reg, m, Class) ==
    LET found == GetMetadata(m.translator, Class)
    IN  IF found = NoMeta
        THEN LET g == getValidator(reg, m, Class)
                 translator_ == Ref(Len(g.memo.created) + 1)
                 memo_ == [g.memo EXCEPT
                              !.translator[Class] = translator_,
                              !.created = Append(@,
                                  [kind |-> "translator", class |-> Class,
                                   validator |-> g.out,
                                   tr |-> NewTranslator(g.out # Null)])]
             IN  [out |-> GetMetadata(memo_.translator, Class), built |-> TRUE,
                  reg |-> g.reg, memo |-> memo_]
        ELSE [out |-> found, built |-> FALSE, reg |-> reg, memo |-> m]

\* Where the program is with its class definitions: the number of
\* declarations (decorator applications) made, the class whose definition
\* is being evaluated, and the classes whose definition is complete.
NoHistory == [decls |-> 0, open |-> "Parent", defined |-> {}]

\* No class has been declared or asked for anything.
NothingDeclared ==
    /\ registry = NoRegistry
    /\ memo = NoMemo
    /\ history = NoHistory

----------------------------------------------------------------------------
(* The validators and the inputs the model ranges over.                    *)

\* @string()
OptStr == buildPropSchema(string(DefaultPropMeta))
\* @required() @string()
ReqStr == buildPropSchema(required(FALSE, string(DefaultPropMeta)))
\* @required(true) @string()
ReqNullStr == buildPropSchema(required(TRUE, string(DefaultPropMeta)))
\* @required() @number()
ReqNum == buildPropSchema(required(FALSE, number(-1, -1, DefaultPropMeta)))
\* @required() @number({min: 1})
ReqMinNum == buildPropSchema(required(FALSE, number(1, -1, DefaultPropMeta)))
\* @number({min: 2, max: 0}): a range no number lies in
EmptyRangeNum == buildPropSchema(number(2, 0, DefaultPropMeta))

\* Identifier maps: none, a single key (a schema, a schema with two value
\* rules, or a literal), a composite key.
IdMaps ==
    {<<>>,
     <<Entry("theID", ReqMinNum)>>,
     <<Entry("theID", EmptyRangeNum)>>,
     <<Entry("theID", JoiLiteral)>>,
     <<Entry("theID", ReqMinNum), Entry("name", ReqStr)>>}
\* Model maps; the last one has two required fields and shares the key
\* theID with the identifier maps.
ModelMaps ==
    {<<>>,
     <<Entry("name", OptStr)>>,
     <<Entry("name", ReqStr)>>,
     <<Entry("name", ReqNullStr)>>,
     <<Entry("name", JoiLiteral)>>,
     <<Entry("theID", ReqNum), Entry("name", ReqStr)>>}

\* Option objects that set at most one key.
OptionObjects ==
    {NoOpts} \cup {[k \in {n} |-> b] : n \in OptNames, b \in BOOLEAN}

\* The maps of the sample model, used where joiOptions vary.
SampleIdMap == <<Entry("theID", ReqMinNum)>>
SampleModelMap == <<Entry("name", ReqStr)>>

Validators ==
    {NewValidator(TRUE, i, m, NoOpts) : i \in IdMaps, m \in ModelMaps}
    \cup {NewValidator(FALSE, <<>>, m, NoOpts) : m \in ModelMaps}
    \cup {NewValidator(TRUE, i, SampleModelMap, o) :
              i \in {<<>>, SampleIdMap}, o \in OptionObjects}

\* What each property of a candidate may hold.
CellsOf(k) ==
    IF k = "theID" THEN {Undefined, Str(1)} \cup {Num(n) : n \in 0..MaxNum}
    ELSE IF k = "name" THEN {Undefined, Null, Str(1)}
    ELSE {Undefined, Str(1)}
\* Candidates handed to the validator: objects, and values that are none.
CandidateObjects ==
    {o \in Objects : \A k \in ObjectKeys : o.props[k] \in CellsOf(k)}
Candidates == CandidateObjects \cup {Undefined, Null, Num(1)}

NoCall == [op |-> "none"]

----------------------------------------------------------------------------------------------------------------------------------------
(* The validator used on its own.                                          *)

InitV ==
    /\ validator \in Validators
    /\ translator = NewTranslator(TRUE)
    /\ call = NoCall
    /\ NothingDeclared

ValidatorId ==
    /\ call = NoCall
    /\ \E target \in Candidates :
         LET r == id(validator, target)
         IN  /\ validator' = r.v
             /\ call' = [op |-> "id", target |-> target, options |-> NoOpts,
                         out |-> r.out, before |-> validator]
    /\ UNCHANGED <<translator, classVars>>

ValidatorWhole ==
    /\ call = NoCall
    /\ \E target \in Candidates, options \in OptionObjects :
         LET r == whole(validator, target, options)
         IN  /\ validator' = r.v
             /\ call' = [op |-> "whole", target |-> target, options |-> options,
                         out |-> r.out, before |-> validator]
    /\ UNCHANGED <<translator, classVars>>

ValidatorPartial ==
    /\ call = NoCall
    /\ \E target \in Candidates, options \in OptionObjects :
         LET r == partial(validator, target, options)
         IN  /\ validator' = r.v
             /\ call' = [op |-> "partial", target |-> target, options |-> options,
                         out |-> r.out, before |-> validator]
    /\ UNCHANGED <<translator, classVars>>

\* The caller takes the outcome of the call and goes on.
CallerContinues ==
    /\ call # NoCall
    /\ call' = NoCall
    /\ UNCHANGED <<validator, translator, classVars>>

NextV ==
    \/ ValidatorId
    \/ ValidatorWhole
    \/ ValidatorPartial
    \/ CallerContinues

SpecV == InitV /\ [][NextV]_vars

----------------------------------------------------------------------------
(* The translator, with the validator it was constructed with.             *)

\* Source objects: empty, without identifier, complete, with an unknown key.
SourceObjects ==
    {Obj(EmptyProps),
     Obj([EmptyProps EXCEPT !["name"] = Str(1)]),
     Obj([EmptyProps EXCEPT !["theID"] = Num(1), !["name"] = Str(1)]),
     Obj([theID |-> Num(1), name |-> Str(1), extra |-> Str(1)])}
NonObjects == {Null, Undefined, Num(1), Str(1)}
\* What an array source may hold.
Elements ==
    {Obj(EmptyProps), Obj([theID |-> Num(1), name |-> Str(1), extra |-> Str(1)]),
     Null}
Arrays == {Arr(s) : s \in UNION {[1..n -> Elements] : n \in 0..MaxLen}}
Sources == SourceObjects \cup NonObjects \cup Arrays

\* The positions of a source the shape copier may be asked about.
Positions(source) ==
    IF source.t = "array" THEN 1..Len(source.items) ELSE {1}

\* MappingOptions as the caller writes them.
MappingOptionsSet ==
    [enableValidation : {"absent", "undefined", "true", "false"},
     isEdit : {"absent", "true"},
     errorCallback : {"absent", "function"}]

\* Validators a translator is constructed with: the sample model, the same
\* keeping unknown keys, and a model without identifier map.
TranslatorValidators ==
    {NewValidator(TRUE, SampleIdMap, SampleModelMap, NoOpts),
     NewValidator(TRUE, SampleIdMap, SampleModelMap,
                  [k \in {"stripUnknown"} |-> FALSE]),
     NewValidator(FALSE, <<>>, <<Entry("name", OptStr)>>, NoOpts)}

Init ==
    /\ \/ /\ translator = NewTranslator(TRUE)
          /\ validator \in TranslatorValidators
       \/ /\ translator = NewTranslator(FALSE)
          /\ validator = Undefined
    /\ call = NoCall
    /\ NothingDeclared

\* tryTranslate(fn, source, options) as the caller sees it.
Translate(fn, source, options, failing) ==
    LET r == tryTranslate(translator, fn, source, options, failing, validator)
    IN  /\ validator' = r.s.v
        /\ call' = [op |-> fn, source |-> source, options |-> options,
                    failing |-> failing, out |-> r.out, cb |-> r.s.cb,
                    vcalls |-> r.s.vcalls, mcalls |-> r.s.mcalls,
                    enabled |-> AssignOptions(translator, options)
                                    .enableValidation,
                    written |-> WritesOf(translator, source, options, r)]

\* translator.whole(source, options)
TranslatorWhole ==
    /\ call = NoCall
    /\ \E source \in Sources, options \in MappingOptionsSet :
         \E failing \in SUBSET Positions(source) :
             Translate("whole", source, options, failing)
    /\ UNCHANGED <<translator, classVars>>

\* translator.partial(source, options)
TranslatorPartial ==
    /\ call = NoCall
    /\ \E source \in Sources, options \in MappingOptionsSet :
         \E failing \in SUBSET Positions(source) :
             Translate("partial", source, options, failing)
    /\ UNCHANGED <<translator, classVars>>

\* translator.enableValidation = b (a public field)
SetEnableValidation ==
    /\ call = NoCall
    /\ \E b \in BOOLEAN :
         /\ b # translator.enableValidation
         /\ translator' = [translator EXCEPT !.enableValidation = b]
    /\ UNCHANGED <<validator, call, classVars>>

Next ==
    \/ TranslatorWhole
    \/ TranslatorPartial
    \/ SetEnableValidation
    \/ CallerContinues

Spec == Init /\ [][Next]_vars

----------------------------------------------------------------------------
(* Validators whose preconditions may not be met, alone and under a        *)
(* translator: a validator of the translator's version, constructed and    *)
(* perhaps not compiled yet, and a validator given no identifier map.      *)

GuardedValidators ==
    {JoiModelValidator(SampleModelMap, c, SampleIdMap) : c \in BOOLEAN}
    \cup {create(SampleModelMap, c, SampleIdMap) : c \in BOOLEAN}
    \cup {NewValidator(FALSE, <<>>, SampleModelMap, NoOpts)}

InitG ==
    /\ validator \in GuardedValidators
    /\ translator = NewTranslator(TRUE)
    /\ call = NoCall
    /\ NothingDeclared

\* validator.compile()
Compile ==
    /\ call = NoCall
    /\ IsLegacy(validator)
    /\ ~validator._compiledWhole.compiled
    /\ validator' = compile(validator)
    /\ UNCHANGED <<translator, call, classVars>>

\* validator.pk(target), or validator.id(target) where that is its name
IdentifierCall ==
    /\ call = NoCall
    /\ \E target \in Candidates :
         LET r == IF IsLegacy(validator) THEN pk(validator, target)
                  ELSE id(validator, target)
         IN  /\ validator' = r.v
             /\ call' = [op |-> "id", target |-> target, out |-> r.out,
                         before |-> validator]
    /\ UNCHANGED <<translator, classVars>>

\* validator.whole(target, options) and validator.partial(target, options)
MethodCall ==
    /\ call = NoCall
    /\ \E fn \in {"whole", "partial"}, target \in Candidates, isEdit \in BOOLEAN :
         LET r == CallValidator(validator, fn, target,
                                [k \in {"isEdit"} |-> isEdit])
         IN  /\ validator' = r.v
             /\ call' = [op |-> "validator." \o fn, target |-> target,
                         out |-> r.out, before |-> validator]
    /\ UNCHANGED <<translator, classVars>>

NextG ==
    \/ Compile
    \/ IdentifierCall
    \/ MethodCall
    \/ TranslatorWhole
    \/ TranslatorPartial
    \/ CallerContinues

SpecG == InitG /\ [][NextG]_vars

----------------------------------------------------------------------------
(* The model classes.  Decorators run while a class definition is          *)
(* evaluated: the property decorators in any order, then the class         *)
(* decorator if there is one.  Parent is defined first; Child, which       *)
(* extends it, at any later moment; a defined class is asked for its       *)
(* validator and translator at any moment.                                 *)

\* Most declarations (decorator applications) made in one run.
MaxDecls == 2

\* What @validateClass is given: an explicit model map, an explicit
\* identifier map.
ValidatorOptionsSet ==
    {[schemaMapModel |-> SampleModelMap],
     [schemaMapId |-> SampleIdMap]}
\* Sources given to from and to the class translator.
ClassSources ==
    {Obj(EmptyProps),
     Obj([EmptyProps EXCEPT !["theID"] = Num(1), !["name"] = Str(1)])}
\* Options given to the class translator.
ClassMappingOptions ==
    {[enableValidation |-> e, isEdit |-> "absent", errorCallback |-> "absent"] :
        e \in {"absent", "true"}}
NoMappingOptions ==
    [enableValidation |-> "absent", isEdit |-> "absent",
     errorCallback |-> "absent"]

InitC ==
    /\ validator = Undefined
    /\ translator = NewTranslator(FALSE)
    /\ call = NoCall
    /\ NothingDeclared

\* The definition of Class is being evaluated, or can begin now.
Declaring(Class) ==
    \/ history.open = Class
    \/ /\ history.open = NoClass
       /\ Class \notin history.defined
       /\ SuperOf(Class) \in history.defined
\* A decorator of Class can run.
CanDeclare(Class) ==
    /\ call = NoCall
    /\ history.decls < MaxDecls
    /\ Declaring(Class)
\* Class can be asked for its validator and translator.
CanRequest(Class) ==
    /\ call = NoCall
    /\ history.open = NoClass
    /\ Class \in history.defined
AfterDeclaration(Class) ==
    [history EXCEPT !.decls = @ + 1, !.open = Class]
AfterDefinition(Class) ==
    [history EXCEPT !.open = NoClass, !.defined = @ \cup {Class}]

\* @required() on a property of the class being defined
DeclareRequired ==
    /\ \E Class \in Classes, propName \in SchemaKeys :
         /\ CanDeclare(Class)
         /\ registry' = DecorateProp(registry, Class, propName, "required")
         /\ history' = AfterDeclaration(Class)
    /\ UNCHANGED <<validator, translator, call, memo>>

\* @number({min: 1}) on the property theID of the class being defined
DeclareNumber ==
    /\ \E Class \in Classes :
         /\ CanDeclare(Class)
         /\ registry' = DecorateProp(registry, Class, "theID", "number")
         /\ history' = AfterDeclaration(Class)
    /\ UNCHANGED <<validator, translator, call, memo>>

\* @id() on the property theID of the class being defined
DeclareId ==
    /\ \E Class \in Classes :
         /\ CanDeclare(Class)
         /\ registry' = idDecorator(registry, Class, "theID")
         /\ history' = AfterDeclaration(Class)
    /\ UNCHANGED <<validator, translator, call, memo>>

\* @validateClass(validatorOptions): the class decorator runs last and the
\* definition is complete.
DeclareClass ==
    /\ \E Class \in Classes, validatorOptions \in ValidatorOptionsSet :
         /\ CanDeclare(Class)
         /\ registry' = validateClass(registry, Class, validatorOptions)
         /\ history' = [AfterDefinition(Class) EXCEPT !.decls = @ + 1]
    /\ UNCHANGED <<validator, translator, call, memo>>

\* The definition of a class without class decorator is complete.
DefineClass ==
    /\ call = NoCall
    /\ \E Class \in Classes :
         /\ Declaring(Class)
         /\ history' = AfterDefinition(Class)
    /\ UNCHANGED <<validator, translator, call, registry, memo>>

\* createJoiValidator(Class) called by hand, twice in a row
BuildTwice ==
    /\ \E Class \in Classes :
         /\ CanRequest(Class)
         /\ LET c == createJoiValidator(registry, Class, Undefined)
                d == createJoiValidator(c.reg, Class, Undefined)
            IN  /\ registry' = d.reg
                /\ call' = [op |-> "createJoiValidator", class |-> Class,
                            out |-> c.out, again |-> d.out, before |-> registry]
    /\ UNCHANGED <<validator, translator, memo, history>>

\* Class.getValidator()
RequestValidator ==
    /\ \E Class \in Classes :
         /\ CanRequest(Class)
         /\ LET g == getValidator(registry, memo, Class)
            IN  /\ registry' = g.reg
                /\ memo' = g.memo
                /\ call' = [op |-> "getValidator", class |-> Class,
                            out |-> g.out, built |-> g.built,
                            before |-> registry, memo |-> memo]
    /\ UNCHANGED <<validator, translator, history>>

\* Class.getTranslator()
RequestTranslator ==
    /\ \E Class \in Classes :
         /\ CanRequest(Class)
         /\ LET g == getTranslator(registry, memo, Class)
            IN  /\ registry' = g.reg
                /\ memo' = g.memo
                /\ call' = [op |-> "getTranslator", class |-> Class,
                            out |-> g.out, built |-> g.built,
                            before |-> registry, memo |-> memo]
    /\ UNCHANGED <<validator, translator, history>>

\* translator[fn](source, options) on the translator g found or made for
\* Class: the translator works with the validator it was constructed with.
ClassTranslate(op, fn, Class, source, options, g) ==
    LET t == g.memo.created[g.out.i]
        v == IF t.validator = Null THEN Null ELSE g.memo.created[t.validator.i].v
        r == tryTranslate(t.tr, fn, source, options, {}, v)
    IN  /\ registry' = g.reg
        /\ memo' = IF t.validator = Null THEN g.memo
                   ELSE [g.memo EXCEPT !.created[t.validator.i].v = r.s.v]
        /\ call' = [op |-> op, class |-> Class, source |-> source,
                    options |-> options, out |-> r.out,
                    cb |-> r.s.cb, vcalls |-> r.s.vcalls, mcalls |-> r.s.mcalls,
                    translator |-> g.out, built |-> g.built,
                    before |-> registry, memo |-> memo]

\* Class.from(source)
From ==
    /\ \E Class \in Classes, source \in ClassSources :
         /\ CanRequest(Class)
         /\ ClassTranslate("from", "whole", Class, source, NoMappingOptions,
                           getTranslator(registry, memo, Class))
    /\ UNCHANGED <<validator, translator, history>>

\* Class.getTranslator().partial(source, options)
ClassPartial ==
    /\ \E Class \in Classes, source \in ClassSources,
          options \in ClassMappingOptions :
         /\ CanRequest(Class)
         /\ ClassTranslate("partial", "partial", Class, source, options,
                           getTranslator(registry, memo, Class))
    /\ UNCHANGED <<validator, translator, history>>

NextC ==
    \/ DeclareRequired
    \/ DeclareNumber
    \/ DeclareId
    \/ DeclareClass
    \/ DefineClass
    \/ BuildTwice
    \/ RequestValidator
    \/ RequestTranslator
    \/ From
    \/ ClassPartial
    \/ CallerContinues

SpecC == InitC /\ [][NextC]_vars

----------------------------------------------------------------------------
(* One declared property and the constraint its metadata compiles to.      *)

\* Most rules recorded on the property.
MaxRules == 2

\* The rules the decorators record.
RuleSet ==
    {Rule("required", 0), Rule("allowNull", 0)}
        \cup {Rule(op, n) : op \in {"min", "max"}, n \in 0..MaxNum}
RECURSIVE RuleLists(_)
\* The rule lists of up to n rules.
RuleLists(n) ==
    IF n = 0 THEN {<<>>}
    ELSE RuleLists(n - 1)
         \cup {Append(rules, rule) :
                   rules \in {l \in RuleLists(n - 1) : Len(l) = n - 1},
                   rule \in RuleSet}
\* What @validateProp is given: nothing, the plain values 0 and 1, a schema.
RawSchemas == {NoSchema, Num(0), Num(1), JoiRequired(JoiType("number"))}
\* The metadata Parent's decorators can leave on a property.
PropMetas ==
    {validateProp(rawSchema,
                  [PropMetaStub("Parent") EXCEPT !.type = type, !.rules = rules]) :
        type \in {"string", "number"}, rules \in RuleLists(MaxRules),
        rawSchema \in RawSchemas}

\* Parent has declared the property name, and nothing else.
InitP ==
    /\ validator = Undefined
    /\ translator = NewTranslator(FALSE)
    /\ call = NoCall
    /\ memo = NoMemo
    /\ history = NoHistory
    /\ \E propMeta \in PropMetas :
          registry = setPropValidationMetadata(
                         [NoRegistry EXCEPT !.heap = <<propMeta>>], "Parent",
                         createClassValidationMetadata, "name", 1)

\* buildPropSchema(meta) for the declared property, as buildSchemaMapModel
\* calls it.
CompileProperty ==
    /\ call = NoCall
    /\ LET classMeta == getClassValidationMetadata(registry, "Parent")
           propMeta == registry.heap[RefOf(classMeta.props, "name")]
       IN  call' = [op |-> "buildPropSchema", propMeta |-> propMeta,
                    out |-> buildPropSchema(propMeta),
                    maps |-> buildSchemaMapModel(registry.heap, classMeta)]
    /\ UNCHANGED <<validator, translator, classVars>>

NextP ==
    \/ CompileProperty
    \/ CallerContinues

SpecP == InitP /\ [][NextP]_vars

----------------------------------------------------------------------------
(* Reading the record of a translator call.                                *)

TranslatorCalled == call # NoCall /\ call.op \in {"whole", "partial"}

\* The elements the call was asked to translate, in order.
ElementsOf(source) == IF source.t = "array" THEN source.items ELSE <<source>>
\* The results of the call, element by element, once it has returned.
ResultsOf(c) ==
    IF c.source.t = "array" THEN c.out.value.items ELSE <<c.out.value>>

HasError(vcall) == ~IsNullish(vcall.result[1])
\* The errors the validator reported during the call, in order.
ErrorsOf(vcalls) ==
    LET bad == SelectSeq(vcalls, HasError)
    IN  [i \in 1..Len(bad) |-> bad[i].result[1]]
\* The values the validator accepted during the call, in order.
AcceptedOf(vcalls) ==
    LET good == SelectSeq(vcalls, LAMBDA c : ~HasError(c))
    IN  [i \in 1..Len(good) |-> good[i].result[2]]
\* What the shape copier was given during the call, in order.
CopiedOf(mcalls) == [i \in 1..Len(mcalls) |-> mcalls[i].source]
IsValidationError(e) == e.t = "ValidationError"
WithCallback(c) == c.options.errorCallback = "function"

----------------------------------------------------------------------------
(* The translator's handling of errors.                                    *)

\* C1: when validation is enabled and the validator reports an error for an
\* element, the shape copier is not called for it (the copier sees exactly
\* the values the validator accepted); with an errorCallback the callback
\* gets each reported error exactly once and the element's result is null,
\* without one the error is raised to the caller.
C1_ValidationErrorHandled ==
    (TranslatorCalled /\ call.vcalls # <<>>) =>
        /\ CopiedOf(call.mcalls) = AcceptedOf(call.vcalls)
        /\ IF WithCallback(call)
           THEN /\ SelectSeq(call.cb, IsValidationError) = ErrorsOf(call.vcalls)
                /\ call.out.kind = "return"
                /\ \A i \in 1..Len(call.vcalls) :
                       HasError(call.vcalls[i]) => ResultsOf(call)[i] = Null
           ELSE /\ call.cb = <<>>
                /\ ErrorsOf(call.vcalls) # <<>> =>
                       /\ HasError(call.vcalls[Len(call.vcalls)])
                       /\ Len(ErrorsOf(call.vcalls)) = 1
                       /\ call.out = Raised(ErrorsOf(call.vcalls)[1])

\* An array whose first element the validator refuses and whose second it
\* accepts, translated with an errorCallback.
C1_Witness ==
    /\ TranslatorCalled /\ WithCallback(call)
    /\ call.source.t = "array"
    /\ Len(call.vcalls) = 2
    /\ HasError(call.vcalls[1]) /\ ~HasError(call.vcalls[2])
    /\ Len(call.cb) = 1
    /\ call.out.kind = "return" /\ call.out.value.items[1] = Null
    /\ call.out.value.items[2] # Null

\* C2 as stated: in every call, validation run or skipped, a failure of the
\* shape copier goes to the errorCallback when one is supplied (the call
\* returns and the element's result is null) and is raised otherwise.
C2_CopierFailureHandled ==
    TranslatorCalled =>
        \A i \in 1..Len(call.mcalls) :
            call.mcalls[i].failed =>
                IF WithCallback(call)
                THEN /\ call.out.kind = "return"
                     /\ \E j \in 1..Len(call.cb) : call.cb[j] = MappingError
                ELSE call.out = Raised(MappingError)

\* The effective enableValidation of the recorded call is false.
ValidationOff(c) ==
    \/ c.options.enableValidation = "false"
    \/ c.options.enableValidation = "absent" /\ ~translator.enableValidation

\* C3: when the effective enableValidation is false (the per-call option,
\* when given, overrides the translator's flag), the validator is never
\* invoked, the shape copier is handed the source elements themselves, and
\* no validation error is raised or reported.
C3_SkippedValidation ==
    (TranslatorCalled /\ TypeofObject(call.source) /\ ~IsNullish(call.source)
        /\ ValidationOff(call)) =>
        /\ call.vcalls = <<>>
        /\ call.mcalls # <<>> \/ call.source = Arr(<<>>)
        /\ CopiedOf(call.mcalls)
               = SubSeq(ElementsOf(call.source), 1, Len(call.mcalls))
        /\ SelectSeq(call.cb, IsValidationError) = <<>>
        /\ call.out.kind = "raise" => ~IsValidationError(call.out.error)

\* A translator with validation on is told per call to skip it, and the
\* empty object, which violates the schema, is copied as it is.
C3_Witness ==
    /\ TranslatorCalled
    /\ translator.hasValidator /\ translator.enableValidation
    /\ call.options.enableValidation = "false"
    /\ call.source = Obj(EmptyProps)
    /\ call.out = Returned(Instance(Obj(EmptyProps)))

\* C4: whole/partial called with null, undefined or any other non-object
\* return null, raise nothing, and invoke neither the errorCallback nor the
\* validator nor the shape copier, whatever the options.
C4_NonObjectSource ==
    (TranslatorCalled /\ call.source \in NonObjects) =>
        /\ call.out = Returned(Null)
        /\ call.cb = <<>>
        /\ call.vcalls = <<>>
        /\ call.mcalls = <<>>

\* A number is given to a validating translator together with an
\* errorCallback and the failing copier.
C4_Witness ==
    /\ TranslatorCalled
    /\ call.source = Num(1)
    /\ translator.hasValidator
    /\ call.options.enableValidation = "true"
    /\ WithCallback(call)
    /\ call.failing = {1}
    /\ call.out = Returned(Null)

\* Element i of the call failed: the validator refused it or the copier did.
ElementFailed(c, i) ==
    \/ i \in c.failing
    \/ c.enabled /\ i \in 1..Len(c.vcalls) /\ HasError(c.vcalls[i])
\* The number of elements the call went through.
Processed(c) == IF c.enabled THEN Len(c.vcalls) ELSE Len(c.mcalls)

\* C5 as stated: for an array source the elements are processed in index
\* order; with an errorCallback the call returns an array of the same length
\* whose i-th entry is null exactly when element i failed, and every element
\* is processed; without one the first failing element aborts the call and
\* no later element is processed.
C5_ArrayPipeline ==
    (TranslatorCalled /\ call.source.t = "array") =>
        LET items == call.source.items
        IN  IF WithCallback(call)
            THEN /\ call.out.kind = "return"
                 /\ Len(call.out.value.items) = Len(items)
                 /\ Processed(call) = Len(items)
                 /\ \A i \in 1..Len(items) :
                        (call.out.value.items[i] = Null) <=> ElementFailed(call, i)
            ELSE IF \E i \in 1..Len(items) : ElementFailed(call, i)
            THEN /\ call.out.kind = "raise"
                 /\ ElementFailed(call, Processed(call))
                 /\ \A i \in 1..(Processed(call) - 1) : ~ElementFailed(call, i)
            ELSE /\ call.out.kind = "return"
                 /\ Len(call.out.value.items) = Len(items)

\* The keys of the schema the recorded validator call was checked against.
SchemaOf(fn) ==
    IF fn = "whole" THEN validator._compiledWhole.keys
    ELSE validator._compiledPartial.keys
DefaultOptions ==
    [abortEarly |-> FALSE, allowUnknown |-> TRUE, stripUnknown |-> TRUE]

\* C6: when validation is enabled and succeeds the shape copier receives
\* the validator's output, and under the default options neither that
\* output nor the returned model instance holds a property the schema does
\* not name.
C6_NormalizedOutputCopied ==
    (TranslatorCalled /\ call.vcalls # <<>>) =>
        /\ CopiedOf(call.mcalls) = AcceptedOf(call.vcalls)
        /\ validator._defaultOpts = DefaultOptions =>
              /\ \A i \in 1..Len(call.mcalls) : \A k \in ObjectKeys :
                     ~HasKey(SchemaOf(call.op), k) =>
                         call.mcalls[i].source.props[k] = Undefined
              /\ call.out.kind = "return" =>
                     \A i \in 1..Len(ResultsOf(call)) : \A k \in ObjectKeys :
                         (ResultsOf(call)[i] # Null
                              /\ ~HasKey(SchemaOf(call.op), k)) =>
                             ResultsOf(call)[i].props[k] = Undefined

\* An object with an unknown property passes validation and the model
\* instance comes back without it.
C6_Witness ==
    /\ TranslatorCalled
    /\ validator._defaultOpts = DefaultOptions
    /\ call.source.t = "object"
    /\ call.source.props["extra"] # Undefined
    /\ call.vcalls # <<>> /\ ~HasError(call.vcalls[1])
    /\ call.out.kind = "return"
    /\ call.out.value # Null
    /\ call.out.value.props["extra"] = Undefined

----------------------------------------------------------------------------
(* Reading the record of a validator call.                                 *)

ValidatorCalled == call # NoCall /\ call.op \in {"id", "whole", "partial"}
\* The call returned its [error, value] pair.
Answered == ValidatorCalled /\ call.out.kind = "return"
\* The violations the returned pair reports (none when the error is null).
DetailsOf(out) ==
    IF out.value[1] = Null THEN {}
    ELSE {out.value[1].details[i] : i \in 1..Len(out.value[1].details)}
Accepts(out) == out.kind = "return" /\ out.value[1] = Null
Rejects(out) == out.kind = "return" /\ out.value[1] # Null
\* The property declarations @required(allowNull) is combined with.
TypedPropMetas ==
    {string(DefaultPropMeta), number(-1, -1, DefaultPropMeta),
     number(1, -1, DefaultPropMeta)}
\* The rule comes from a declaration with @required(...), whatever its
\* argument; with @required() or @required(false).
DeclaredRequired(rule) ==
    \E allowNull \in BOOLEAN, meta \in TypedPropMetas :
        rule = buildPropSchema(required(allowNull, meta))
RequiredNotNull(rule) ==
    \E meta \in TypedPropMetas : rule = buildPropSchema(required(FALSE, meta))
Omits(c, k) == c.t = "object" /\ c.props[k] = Undefined
\* The options in force for the recorded whole or partial call.
InForce(c) == MergeOpts(c.before._defaultOpts, c.options)

\* C7 as stated: for every validator, whole never reports a required
\* violation for an identifier field the candidate lacks, and partial
\* reports one for every identifier field declared required that the
\* candidate lacks.
C7_IdentifierTreatment ==
    (Answered /\ call.target.t = "object") =>
        LET idMap == call.before._schemaMapId.map
        IN  \A k \in MapKeys(idMap) :
                Omits(call.target, k) =>
                    /\ call.op = "whole" =>
                           Detail(k, "required") \notin DetailsOf(call.out)
                    /\ (call.op = "partial" /\ DeclaredRequired(RuleOf(idMap, k))) =>
                           Detail(k, "required") \in DetailsOf(call.out)

\* Every property the candidate supplies is declared and satisfies what the
\* maps declare for it, and every identifier field is present and valid.
OnlyOmissions(v, c) ==
    LET idMap == v._schemaMapId.map
        model == v._schemaMapModel
    IN  \A k \in ObjectKeys :
            /\ HasKey(idMap, k) => FieldErrors(RuleOf(idMap, k), k, c.props[k]) = <<>>
            /\ (HasKey(model, k) /\ ~Omits(c, k)) =>
                   FieldErrors(RuleOf(model, k), k, c.props[k]) = <<>>
            /\ (~HasKey(idMap, k) /\ ~HasKey(model, k)) => Omits(c, k)
OnPath(details, k) == {d \in details : d.path = k}

\* What C8 says of one whole call, `collected` telling whether the report
\* of a violation on the omitted field itself is demanded.
RequiredModelFields(collected) ==
    (Answered /\ call.op = "whole" /\ call.target.t = "object") =>
        LET v == call.before
            c == call.target
            model == v._schemaMapModel
            p == partial(v, c, call.options).out
        IN  \A f \in MapKeys(model) :
                DeclaredRequired(RuleOf(model, f)) =>
                    /\ (Omits(c, f) /\ OnlyOmissions(v, c)) =>
                           /\ Accepts(p)
                           /\ Rejects(call.out)
                           /\ collected =>
                                  OnPath(DetailsOf(call.out), f) # {}
                    /\ (~Omits(c, f)
                          /\ FieldErrors(RuleOf(model, f), f, c.props[f]) # <<>>) =>
                           Rejects(call.out) /\ Rejects(p)

\* C8 as stated: for every model field declared required, partial accepts
\* a candidate that omits it (identifier fields present and valid) and
\* whole rejects the same candidate with a violation on that field; a
\* supplied value that breaks the field's other constraints is rejected by
\* both.
C8_RequiredModelFields == RequiredModelFields(TRUE)

\* C8, amended: the violation on the omitted field itself is reported when
\* all errors are collected (abortEarly false, the default); with
\* abortEarly true whole still rejects the candidate.
C8_RequiredModelFieldsCollected ==
    RequiredModelFields(Answered /\ call.op = "whole"
                            /\ ~Pref(InForce(call), "abortEarly"))

\* whole reports the missing name of a candidate that holds a valid
\* identifier, and partial accepts the same candidate.
C8_Witness ==
    /\ Answered /\ call.op = "whole"
    /\ call.before._schemaMapId.map = SampleIdMap
    /\ call.before._schemaMapModel = SampleModelMap
    /\ call.target.t = "object"
    /\ call.target.props["theID"] = Num(1)
    /\ Omits(call.target, "name")
    /\ Detail("name", "required") \in DetailsOf(call.out)
    /\ Accepts(partial(call.before, call.target, call.options).out)

\* What C9 says of one whole or partial call for the fields of `fields`
\* (key -> rule entries) picked out by `Declared`.
NullRejected(Declared(_), fields) ==
    \A i \in 1..Len(fields) :
        Declared(fields[i].rule) =>
            /\ call.target.props[fields[i].key] = Null => Rejects(call.out)
            /\ (call.op = "partial" /\ Omits(call.target, fields[i].key)) =>
                   OnPath(DetailsOf(call.out), fields[i].key) = {}

C10_PairReturned ==
    ValidatorCalled =>
        IF call.out.kind = "return"
        THEN LET p == call.out.value
             IN  \/ /\ IsValidationError(p[1])
                    /\ p[1].details # <<>>
                    /\ p[2] = Null
                 \/ /\ p[1] = Null
                    /\ p[2] # Null
                    /\ p[2] \in {Undefined} \cup Objects
        ELSE /\ call.op = "id"
             /\ \A t \in Candidates : id(call.before, t).out.kind = "raise"

\* whole is handed null, which is no object, and answers with an error.
C10_Witness ==
    /\ Answered /\ call.op = "whole"
    /\ call.target = Null
    /\ IsValidationError(call.out.value[1])
    /\ call.out.value[2] = Null

----------------------------------------------------------------------------
(* Claims about the options of a validation and the report it returns.     *)

\* A whole or partial call on an object, made without per-call options on
\* a validator built without joiOptions.
DefaultCall ==
    /\ Answered
    /\ call.op \in {"whole", "partial"}
    /\ call.target.t = "object"
    /\ call.before._defaultOpts = DefaultOptions
    /\ call.options = NoOpts
\* Place of a key in a schema's keys, of a value rule among a rule's checks
\* (0 for the presence and type tests, which are no value rules).
KeyPos(keys, k) == CHOOSE i \in 1..Len(keys) : keys[i].key = k
CheckPos(rule, type) ==
    IF \E i \in 1..Len(rule.checks) : rule.checks[i].op = type
    THEN CHOOSE i \in 1..Len(rule.checks) : rule.checks[i].op = type
    ELSE 0

\* C11: under the default options a failing whole or partial validation
\* returns one ValidationError whose details hold an entry for every
\* violated constraint of every field of the schema, and nothing else, in
\* the order the fields and their constraints were declared.
C11_AllViolationsReported ==
    (DefaultCall /\ Rejects(call.out)) =>
        LET keys == SchemaOf(call.op)
            props == call.target.props
            error == call.out.value[1]
            details == error.details
            Violated(i) == FieldErrors(keys[i].rule, keys[i].key, props[keys[i].key])
        IN  /\ error.t = "ValidationError"
            /\ \A i \in 1..Len(keys) : \A j \in 1..Len(Violated(i)) :
                   \E n \in 1..Len(details) : details[n] = Violated(i)[j]
            /\ \A n \in 1..Len(details) :
                   /\ HasKey(keys, details[n].path)
                   /\ \E j \in 1..Len(Violated(KeyPos(keys, details[n].path))) :
                          Violated(KeyPos(keys, details[n].path))[j] = details[n]
            /\ \A m, n \in 1..Len(details) :
                   m < n =>
                     \/ KeyPos(keys, details[m].path) < KeyPos(keys, details[n].path)
                     \/ /\ details[m].path = details[n].path
                        /\ CheckPos(RuleOf(keys, details[m].path), details[m].type)
                             < CheckPos(RuleOf(keys, details[n].path), details[n].type)
\* A default call reports two violations of one field and one of another.
C11_Witness ==
    /\ DefaultCall
    /\ Rejects(call.out)
    /\ LET details == call.out.value[1].details
       IN  \E m, n, p \in 1..Len(details) :
               /\ m < n
               /\ details[m].path = details[n].path
               /\ details[m].type # details[n].type
               /\ details[p].path # details[m].path

\* The value of option k when `over` is laid over `base`.
Overridden(base, over, k) == IF k \in DOMAIN over THEN over[k] ELSE base[k]
\* The stored defaults of a validator built with joiOptions are the
\* built-in defaults overridden by them.
ClassOptionsOverBuiltIn ==
    \A jo \in OptionObjects :
        LET v == NewValidator(TRUE, SampleIdMap, SampleModelMap, jo)
        IN  /\ DOMAIN v._defaultOpts = OptNames
            /\ \A k \in OptNames :
                   v._defaultOpts[k] = Overridden(DefaultOptions, jo, k)
\* A whole or partial call answers as the engine does under the stored
\* defaults overridden by the per-call options.
CallOptionsOverStored ==
    (Answered /\ call.op \in {"whole", "partial"}) =>
        LET stored == call.before._defaultOpts
            opts == [k \in OptNames |-> Overridden(stored, call.options, k)]
        IN  call.out.value =
                ResultPair(JoiValidate(JoiObject(SchemaOf(call.op)),
                                       call.target, opts))
\* C12: the options in force for a whole or partial call are the built-in
\* defaults overridden by the class-level joiOptions, overridden in turn
\* by the per-call options, and no call changes the validator's stored
\* defaults, so a later call without options sees them again.
C12_OptionsInForce ==
    /\ [](ClassOptionsOverBuiltIn /\ CallOptionsOverStored)
    /\ [][validator'._defaultOpts = validator._defaultOpts]_vars
\* A per-call option contradicts a stored default on a validator whose
\* class-level joiOptions changed a built-in default, and the answer is
\* not the one the stored defaults alone give.
C12_Witness ==
    /\ Answered
    /\ call.op \in {"whole", "partial"}
    /\ call.before._defaultOpts # DefaultOptions
    /\ \E k \in DOMAIN call.options :
           call.options[k] # call.before._defaultOpts[k]
    /\ call.out.value #
           ResultPair(JoiValidate(JoiObject(SchemaOf(call.op)), call.target,
                                  call.before._defaultOpts))
    /\ validator._defaultOpts = call.before._defaultOpts

\* C13: a field whose constraint has no optional() stays in the schema
\* _optionalize feeds with its original constraint: such an identifier
\* field is still in the schema of whole, such a model field in the schema
\* of partial (fields named by both maps set aside).
C13_NonOptionalizableKept ==
    (Answered /\ call.op \in {"whole", "partial"}) =>
        LET idMap == call.before._schemaMapId.map
            model == call.before._schemaMapModel
            optionalized == IF call.op = "whole" THEN idMap ELSE model
            other == IF call.op = "whole" THEN model ELSE idMap
        IN  \A i \in 1..Len(optionalized) :
                LET e == optionalized[i]
                IN  (~HasOptionalFn(e.rule) /\ ~HasKey(other, e.key)) =>
                        /\ HasKey(SchemaOf(call.op), e.key)
                        /\ RuleOf(SchemaOf(call.op), e.key) = e.rule

\* C19: for a validator with a single identifier field, id called with a
\* bare value (no object around it) returns (null, value) when the value
\* satisfies the field's constraint and a ValidationError when it does not.
C19_BareIdentifier ==
    (Answered /\ call.op = "id" /\ call.target.t \notin {"object", "undefined"}
              /\ Len(call.before._schemaMapId.map) = 1) =>
        LET field == call.before._schemaMapId.map[1]
        IN  IF FieldErrors(field.rule, field.key, call.target) = <<>>
            THEN call.out.value = <<Null, call.target>>
            ELSE /\ Rejects(call.out)
                 /\ call.out.value[1].t = "ValidationError"

\* C20: a translator built without a validator has enableValidation false,
\* and a whole or partial call on it that passes enableValidation true (on
\* an object or array the copier does not fail on) still returns the
\* translation of the source, made without validating it.
C20_NoValidatorNoValidation ==
    /\ ~NewTranslator(FALSE).enableValidation
    /\ (TranslatorCalled /\ ~translator.hasValidator
                         /\ call.options.enableValidation = "true"
                         /\ call.source.t \in {"object", "array"}
                         /\ call.failing = {}) =>
           /\ call.out.kind = "return"
           /\ call.vcalls = <<>>
           /\ CopiedOf(call.mcalls) = ElementsOf(call.source)

----------------------------------------------------------------------------
(* Claims about class metadata, validator builds and memoized instances.   *)

Built == call # NoCall /\ call.op = "createJoiValidator"
ValidatorRequested == call # NoCall /\ call.op = "getValidator"
TranslatorRequested ==
    call # NoCall /\ call.op \in {"getTranslator", "from", "partial"}
\* The translator a request came to, and the validator it was built with.
TranslatorOf(c) ==
    memo.created[(IF c.op = "getTranslator" THEN c.out ELSE c.translator).i]
\* The validator a build or a request made, when it made one.
MadeValidator ==
    \/ Built /\ call.out # Null
    \/ ValidatorRequested /\ call.built /\ call.out # Null
ValidatorMade == IF Built THEN call.out ELSE memo.created[call.out.i].v

\* C14: when Parent is declared with a non-empty explicit schemaMapModel
\* (schemaMapId), the map its validator is built with for that side is
\* exactly the explicit map.
C14_ExplicitMapsExact ==
    (MadeValidator /\ call.class = "Parent"
                   /\ call.before.meta["Parent"] # NoMeta) =>
        LET explicit == call.before.meta["Parent"]
        IN  /\ explicit.schemaMapModel # <<>> =>
                   ValidatorMade._schemaMapModel = explicit.schemaMapModel
            /\ explicit.schemaMapId # <<>> =>
                   ValidatorMade._schemaMapId.map = explicit.schemaMapId

MetadataView(reg, Class) ==
    LET classMeta == getClassValidationMetadata(reg, Class)
    IN  [schemaMapId |-> classMeta.schemaMapId,
         schemaMapModel |-> classMeta.schemaMapModel,
         idProps |-> classMeta.idProps,
         joiOptions |-> classMeta.joiOptions,
         props |-> [i \in 1..Len(classMeta.props) |->
                       [key |-> classMeta.props[i].key,
                        propMeta |-> reg.heap[classMeta.props[i].ref]]],
         maps |-> buildSchemaMapModel(reg.heap, classMeta)]
\* The instances made for a class.
InstancesOf(m, Class) == SelectSeq(m.created, LAMBDA x : x.class = Class)
\* This step is a declaration made on Child.
ChildDeclares ==
    /\ history'.decls = history.decls + 1
    /\ \/ history'.open = "Child"
       \/ "Child" \in history'.defined \ history.defined

C17_MemoizedPerClass ==
    /\ \A Class \in Classes, kind \in {"validator", "translator"} :
          Cardinality({i \in 1..Len(memo.created) :
                          /\ memo.created[i].class = Class
                          /\ memo.created[i].kind = kind}) <= 1
    /\ (ValidatorRequested /\ call.out # Null) =>
          /\ memo.created[call.out.i].kind = "validator"
          /\ memo.created[call.out.i].class = call.class
    /\ (ValidatorRequested /\ ~call.built) =>
          call.out = GetMetadata(call.memo.validator, call.class)
    /\ TranslatorRequested =>
          /\ TranslatorOf(call).kind = "translator"
          /\ TranslatorOf(call).class = call.class

\* C18: building a class's validator twice in a row gives the same result
\* both times.
C18_RebuildSame ==
    Built => call.again = call.out

----------------------------------------------------------------------------
(* Claims about the records the registry hands out.                        *)

\* The record handed out for Class comes from an ancestor's record.
Inherits(reg, Class) ==
    /\ reg.meta[Class] = NoMeta
    /\ GetMetadata(reg.meta, Class) # NoMeta
\* classMeta.props[propName].rules.push(prev => prev.required()) on the
\* record classMeta.
ExtendRuleList(reg, classMeta, propName) ==
    [reg EXCEPT !.heap[RefOf(classMeta.props, propName)] = required(FALSE, @)]

\* C21: getClassValidationMetadata answers with the class's own record when
\* it has one, else with a copy of the nearest ancestor's record, else with
\* an empty record; and extending the rule list of a property through a
\* record obtained for a subclass leaves the ancestor's record, and the
\* maps a build of the ancestor gives, as they were.
C21_IndependentClone ==
    \A Class \in Classes :
        LET record == getClassValidationMetadata(registry, Class)
        IN  /\ registry.meta[Class] # NoMeta => record = registry.meta[Class]
            /\ GetMetadata(registry.meta, Class) = NoMeta =>
                   record = createClassValidationMetadata
            /\ (Inherits(registry, Class)
                    /\ (Declaring(Class) \/ Class \in history.defined)) =>
                   \A propName \in SchemaKeys :
                       HasProp(record.props, propName) =>
                           MetadataView(ExtendRuleList(registry, record, propName),
                                        SuperOf(Class))
                               = MetadataView(registry, SuperOf(Class))

\* The properties a record holds declarations of.
DeclaredProps(classMeta) ==
    {classMeta.props[i].key : i \in 1..Len(classMeta.props)}
\* The record holds no explicit schema map: whatever was declared was
\* declared through property decorators.
OnlyPropertyLevel(classMeta) ==
    classMeta.schemaMapId = <<>> /\ classMeta.schemaMapModel = <<>>
\* Two different decorators of one property.
DecoratorPairs == {<<"required", "number">>, <<"required", "id">>, <<"number", "id">>}
Decorate(reg, Class, propName, decorator) ==
    IF decorator = "id" THEN idDecorator(reg, Class, propName)
    ELSE DecorateProp(reg, Class, propName, decorator)
\* The maps a build of Class gives.
MapsOf(reg, Class) ==
    buildSchemaMapModel(reg.heap, getClassValidationMetadata(reg, Class))
\* Every declared property is in schemaMapId when it is an identifier
\* property and in schemaMapModel otherwise, with the schema its metadata
\* compiles to, and the maps hold nothing else.
RoutedByIdProps(heap, classMeta, maps) ==
    /\ MapKeys(maps.schemaMapId) = DeclaredProps(classMeta) \cap classMeta.idProps
    /\ MapKeys(maps.schemaMapModel) = DeclaredProps(classMeta) \ classMeta.idProps
    /\ MapKeys(maps.schemaMapId) \cap MapKeys(maps.schemaMapModel) = {}
    /\ MapKeys(maps.schemaMapId) \cup MapKeys(maps.schemaMapModel)
           = DeclaredProps(classMeta)
    /\ Len(maps.schemaMapId) + Len(maps.schemaMapModel) = Len(classMeta.props)
    /\ \A i \in 1..Len(classMeta.props) :
          LET prop == classMeta.props[i].key
              side == IF prop \in classMeta.idProps THEN maps.schemaMapId
                                                    ELSE maps.schemaMapModel
          IN  RuleOf(side, prop) = buildPropSchema(heap[classMeta.props[i].ref])

----------------------------------------------------------------------------
(* Claims about the constraint of one property.                            *)

PropertyCompiled == call # NoCall /\ call.op = "buildPropSchema"
\* The rules applied one after another, in the order recorded, from the
\* type's base constraint on.
RulesApplied(propMeta) ==
    LET step[i \in 0..Len(propMeta.rules)] ==
            IF i = 0 THEN JoiType(propMeta.type)
            ELSE ApplyRule(propMeta.rules[i], step[i - 1])
    IN  step[Len(propMeta.rules)]

\* C23: the constraint of a declared property is its rawSchema when one is
\* set, whatever its type and rules are; otherwise it is what the rules,
\* applied in the order recorded, make of the type's base constraint; and
\* that constraint is what the property gets in the schema map.
C23_RawSchemaOverrides ==
    PropertyCompiled =>
        /\ call.out = IF call.propMeta.rawSchema # NoSchema
                      THEN call.propMeta.rawSchema
                      ELSE RulesApplied(call.propMeta)
        /\ call.maps.schemaMapModel = <<Entry("name", call.out)>>

----------------------------------------------------------------------------
(* Claims about the validator's compiled schemas.                          *)

Methods == {"id", "whole", "partial"}
\* The compiled schema a method works with.
CompiledFor(v, op) ==
    IF op = "id" THEN v._compiledId
    ELSE IF op = "whole" THEN v._compiledWhole
    ELSE v._compiledPartial
\* The validator as it was constructed: nothing compiled.
AsConstructed(v) ==
    [v EXCEPT !._compiledId = NotCompiled, !._compiledWhole = NotCompiled,
              !._compiledPartial = NotCompiled]
\* The outcome of the method op called on v.
OutcomeOf(op, v, target, options) ==
    IF op = "id" THEN id(v, target).out
    ELSE IF op = "whole" THEN whole(v, target, options).out
    ELSE partial(v, target, options).out
\* A call leaves its method's schema compiled and the other two as they
\* were, and its outcome is the one the same call gives when made again
\* and the one it gives on the validator as constructed.
CompiledByOwnMethod ==
    ValidatorCalled =>
        /\ call.out.kind = "return" => CompiledFor(validator, call.op).compiled
        /\ \A op \in Methods \ {call.op} :
              CompiledFor(validator, op) = CompiledFor(call.before, op)
        /\ OutcomeOf(call.op, validator, call.target, call.options) = call.out
        /\ OutcomeOf(call.op, AsConstructed(validator), call.target,
                     call.options) = call.out
\* A step changes a compiled schema only by setting an unset one, in a call
\* of its method, and changes nothing else of the validator.
CompiledOnce ==
    /\ \A op \in Methods :
          CompiledFor(validator', op) # CompiledFor(validator, op) =>
              /\ ~CompiledFor(validator, op).compiled
              /\ CompiledFor(validator', op).compiled
              /\ call'.op = op
    /\ AsConstructed(validator') = AsConstructed(validator)

\* C24: the three compiled schemas are unset on a new validator, each is
\* set by the first call of its own method and by nothing else, and once
\* set it never changes; a call's outcome is the same whenever it is made.
C24_CompiledOnceAndKept ==
    /\ validator = AsConstructed(validator)
    /\ []CompiledByOwnMethod
    /\ [][CompiledOnce]_vars
\* whole is called on a validator that compiled its whole schema in an
\* earlier call, and rejects the candidate.
C24_Witness ==
    /\ ValidatorCalled
    /\ call.op = "whole"
    /\ call.before._compiledWhole.compiled
    /\ call.before._compiledPartial.compiled
    /\ validator = call.before
    /\ Rejects(call.out)

----------------------------------------------------------------------------
(* Claims about failed preconditions.                                      *)

\* A call made on the validator itself.
ValidatorAsked ==
    call # NoCall /\ call.op \in {"id", "validator.whole", "validator.partial"}
\* The precondition of that call does not hold: no identifier map was
\* given, or the schema the method uses is not compiled.
PreconditionUnmet ==
    IF IsLegacy(call.before)
    THEN ~(IF call.op = "id" THEN call.before._compiledPk
           ELSE IF call.op = "validator.whole" THEN call.before._compiledWhole
           ELSE call.before._compiledPartial).compiled
    ELSE call.op = "id" /\ ~call.before._schemaMapId.defined
\* The translator call meets a validator whose schemas are not compiled.
MeetsUncompiled ==
    /\ TranslatorCalled
    /\ call.enabled
    /\ IsLegacy(validator)
    /\ ~validator._compiledWhole.compiled
    /\ ~IsNullish(call.source) /\ TypeofObject(call.source)
    /\ ElementsOf(call.source) # <<>>

\* C25: a validator call whose precondition does not hold raises the
\* failure, and no validator call returns one as the error of its pair; a
\* translator call that meets it raises it too: the errorCallback gets no
\* such failure, nothing is copied and null is not returned in its place.
C25_PreconditionRaised ==
    /\ ValidatorAsked =>
          /\ PreconditionUnmet <=> call.out = Raised(PreconditionError)
          /\ call.out.kind = "return" =>
                \/ call.out.value[1] = Null
                \/ IsValidationError(call.out.value[1])
    /\ TranslatorCalled =>
          /\ \A i \in 1..Len(call.cb) : call.cb[i] # PreconditionError
          /\ \A i \in 1..Len(call.vcalls) :
                "result" \in DOMAIN call.vcalls[i] =>
                    \/ call.vcalls[i].result[1] = Null
                    \/ IsValidationError(call.vcalls[i].result[1])
          /\ MeetsUncompiled <=> call.out = Raised(PreconditionError)
          /\ MeetsUncompiled =>
                /\ call.cb = <<>>
                /\ call.mcalls = <<>>
                /\ Len(call.vcalls) = 1
\* A translator given an errorCallback is handed an array of two while its
\* validator is not compiled, and the call raises the failure.
C25_Witness ==
    /\ MeetsUncompiled
    /\ call.options.errorCallback = "function"
    /\ call.source.t = "array"
    /\ Len(call.source.items) = 2
    /\ call.out = Raised(PreconditionError)
    /\ call.cb = <<>>

----------------------------------------------------------------------------
(* Claims about the run of the pipeline for one element.                   *)

\* The call passed tryTranslate's test of its source.
Translating ==
    TranslatorCalled /\ ~IsNullish(call.source) /\ TypeofObject(call.source)
\* The run of translate for the i-th element of the call.
RunOf(c, i) ==
    translate(translator, c.op, ElementsOf(c.source)[i],
              AssignOptions(translator, c.options), i \in c.failing,
              Effects(validator))
\* The three ends of a run.
EndsDone(run) ==
    /\ run.out.kind = "return"
    /\ run.out.value.t = "instance"
    /\ run.s.cb = <<>>
    /\ Len(run.s.mcalls) = 1 /\ ~run.s.mcalls[1].failed
EndsReported(run) ==
    /\ run.out = Returned(Null)
    /\ Len(run.s.cb) = 1
EndsRaised(run) ==
    /\ run.out.kind = "raise"
    /\ run.s.cb = <<>>
\* The elements whose run the call came to: all of them, or those up to
\* the first that raises.
RunsOf(c) ==
    {i \in 1..Len(ElementsOf(c.source)) :
        \A j \in 1..(i - 1) : RunOf(c, j).out.kind = "return"}

\* C26: the run of translate for an element ends in exactly one of three
\* ways: an instance is returned and the errorCallback was not invoked;
\* null is returned and the errorCallback was invoked once; or an error is
\* raised and the errorCallback was not invoked.  The copier is not entered
\* after a validation failure, and the call is made of these runs.
C26_ThreeOutcomes ==
    Translating =>
        /\ \A i \in RunsOf(call) :
              LET run == RunOf(call, i)
              IN  /\ Cardinality({e \in {"done", "reported", "raised"} :
                         \/ e = "done" /\ EndsDone(run)
                         \/ e = "reported" /\ EndsReported(run)
                         \/ e = "raised" /\ EndsRaised(run)}) = 1
                  /\ Len(run.s.cb) <= 1
                  /\ (run.s.vcalls # <<>> /\ HasError(run.s.vcalls[1])) =>
                         run.s.mcalls = <<>>
        /\ Len(call.cb) = Cardinality({i \in RunsOf(call) :
                                          EndsReported(RunOf(call, i))})
        /\ Len(call.mcalls) = Cardinality({i \in RunsOf(call) :
                                              RunOf(call, i).s.mcalls # <<>>})
        /\ IF call.out.kind = "raise"
           THEN \E i \in RunsOf(call) :
                   /\ RunOf(call, i).out = call.out
                   /\ \A j \in RunsOf(call) : j <= i
           ELSE /\ RunsOf(call) = 1..Len(ElementsOf(call.source))
                /\ \A i \in RunsOf(call) :
                      ResultsOf(call)[i] = RunOf(call, i).out.value
\* An array of two is translated with an errorCallback: the first element
\* is validated and copied, the copy of the second fails and is reported.
C26_Witness ==
    /\ Translating
    /\ call.source.t = "array"
    /\ Len(call.source.items) = 2
    /\ call.out.kind = "return"
    /\ EndsDone(RunOf(call, 1))
    /\ EndsReported(RunOf(call, 2))
    /\ RunOf(call, 2).s.cb = <<MappingError>>
    /\ Len(call.vcalls) = 2

----------------------------------------------------------------------------
(* Claims about the caller's objects.                                      *)

RECURSIVE AfterWrites(_, _, _)
\* The record the object named obj holds once the properties in log are
\* set.
AfterWrites(obj, value, log) ==
    IF log = <<>> THEN value
    ELSE AfterWrites(obj,
             IF Head(log).obj = obj
             THEN [k \in DOMAIN value \cup {Head(log).key} |->
                      IF k = Head(log).key THEN Head(log).value ELSE value[k]]
             ELSE value,
             Tail(log))
\* The caller's objects.
CallerObjects == {"source", "options"}

----------------------------------------------------------------------------
(* Claims about the instances of a subclass.                               *)

\* Child is asked while it holds declarations of its own.
ChildAsked ==
    /\ call # NoCall
    /\ call.op \in {"getValidator", "getTranslator", "from", "partial"}
    /\ call.class = "Child"
    /\ call.before.meta["Child"] # NoMeta

\* C28: whatever was requested of Parent before, a Child that declares
\* rules of its own gets from getValidator a validator made for Child from
\* Child's metadata, and from getTranslator and from a translator made for
\* Child.
C28_SubclassGetsOwnInstances ==
    ChildAsked =>
        /\ (call.op = "getValidator" /\ call.out # Null) =>
              /\ memo.created[call.out.i].kind = "validator"
              /\ memo.created[call.out.i].class = "Child"
              /\ memo.created[call.out.i].v._schemaMapModel
                     = MapsOf(call.before, "Child").schemaMapModel
              /\ memo.created[call.out.i].v._schemaMapId.map
                     = MapsOf(call.before, "Child").schemaMapId
        /\ call.op # "getValidator" =>
              /\ TranslatorOf(call).kind = "translator"
              /\ TranslatorOf(call).class = "Child"

----------------------------------------------------------------------------
(* Claims about a property named in both schema maps.                      *)

\* The names the identifier map and the model map of v share.
SharedKeys(v) == MapKeys(v._schemaMapId.map) \cap MapKeys(v._schemaMapModel)

\* The rule demands that a value be there.
Requires(rule) == rule.kind = "schema" /\ rule.presence = "required"

\* C29: a property named in both maps is still treated as an identifier:
\* the compiled partial schema requires it whenever the identifier map
\* does, and the compiled whole schema does not require it.
C29_SharedKeyIsIdentifier ==
    \A k \in SharedKeys(validator) :
        /\ (validator._compiledPartial.compiled
                /\ Requires(RuleOf(validator._schemaMapId.map, k))) =>
               Requires(RuleOf(validator._compiledPartial.keys, k))
        /\ validator._compiledWhole.compiled =>
               ~Requires(RuleOf(validator._compiledWhole.keys, k))

----------------------------------------------------------------------------
(* Claims about the elements of an array source.                           *)

\* What tryTranslate answers null for when it is the source.
NotTranslatable(x) == IsNullish(x) \/ ~TypeofObject(x)

\* C30: in an array source an element that is null, undefined or not an
\* object is given neither to the validator nor to the shape copier, gives
\* null at its place in the result, and makes the call neither raise nor
\* invoke the errorCallback.
C30_ElementsGuardedAsSources ==
    (Translating /\ call.source.t = "array") =>
        LET items == call.source.items
        IN  /\ \A i \in 1..Len(call.vcalls) :
                  ~NotTranslatable(call.vcalls[i].target)
            /\ \A i \in 1..Len(call.mcalls) :
                  call.mcalls[i].source \notin
                      {items[j] : j \in {n \in 1..Len(items) :
                                            NotTranslatable(items[n])}}
            /\ call.out.kind = "return" =>
                  \A i \in 1..Len(items) :
                      NotTranslatable(items[i]) => ResultsOf(call)[i] = Null
            /\ (\A i \in 1..Len(items) : NotTranslatable(items[i])) =>
                  /\ call.out.kind = "return"
                  /\ call.cb = <<>>

====
